---- MODULE Spec2Model ----
(***************************************************************************)
(* Model of windpowerlib/wind_turbine.py: the WindTurbine descriptor and   *)
(* the functions that resolve its power curve, power-coefficient curve and *)
(* nominal power from literals, csv files and the oedb turbine library     *)
(* with its three cached csv artifacts.                                    *)
(***************************************************************************)
EXTENDS Integers, Sequences, FiniteSets, TLC

(***************************************************************************)
(* Python values.                                                          *)
(***************************************************************************)
\* the empty cell pandas writes for a missing (wind speed, entity) pair
NaN == -1

NoneVal == [t |-> "None"]
Str(s) == [t |-> "str", s |-> s]
Float(x) == [t |-> "float", v |-> x]
\* a curve table: rows is a sequence of [wind_speed, value]
DataFrame(rows) == [t |-> "DataFrame", rows |-> rows]
\* an inline dictionary {'wind_speed': [...], 'value': [...]}
Dict(rows) == [t |-> "dict", rows |-> rows]

Point(w, v) == [wind_speed |-> w, value |-> v]

\* the outcome of a call: the exception that left it ("ok": none) and its value
Result(exc, data) == [exc |-> exc, data |-> data]

Range(n) == [i \in 1..n |-> i]

\* F applied to the value of v: the assignment x = v followed by F(x)
Let(v, F(_)) == CHOOSE y \in {F(x) : x \in {v}} : TRUE

(***************************************************************************)
(* csv files.  A file is Absent or a table: column labels (text) and rows, *)
(* each row the index entry (turbine type) and one cell per column.        *)
(***************************************************************************)
Absent == [exists |-> FALSE]
Table(columns, rows) == [exists |-> TRUE, columns |-> columns, rows |-> rows]
Row(name, vals) == [name |-> name, vals |-> vals]

\* a column label as csv text: a number printed by to_csv, or a word
NumLabel(n) == [text |-> "num", n |-> n]
WordLabel(w) == [text |-> w, n |-> 0]

PowerCurveFile == "data/oedb_power_curves.csv"
PowerCoefficientCurveFile == "data/oedb_power_coefficient_curves.csv"
NominalPowerFile == "data/oedb_nominal_power.csv"
ExampleCurvesFile == "example_power_curves.csv"
ExampleNominalFile == "example_nominal_power.csv"
MissingFile == "missing.csv"

CacheFiles == {PowerCurveFile, PowerCoefficientCurveFile, NominalPowerFile}
UserFiles == {ExampleCurvesFile, ExampleNominalFile}
Paths == CacheFiles \cup UserFiles \cup {MissingFile}

\* 'nominal_power' in file_
ContainsNominalPower(file_) == file_ \in {NominalPowerFile, ExampleNominalFile}

\* the position of label w among the columns, 0 when there is none
ColumnIndex(columns, w) ==
    IF \E i \in 1..Len(columns) : columns[i] = w
    THEN CHOOSE i \in 1..Len(columns) :
            /\ columns[i] = w
            /\ \A j \in 1..(i - 1) : columns[j] # w
    ELSE 0

\* dropna(axis=1) on the selected rows: the columns no selected row lacks
KeptColumns(tbl, wpp) ==
    SelectSeq(Range(Len(tbl.columns)),
              LAMBDA i : \A k \in 1..Len(wpp) : wpp[k].vals[i] # NaN)

\* GetTurbineDataFromFile without the sys.exit of line 264
GetTurbineDataFromFileNoExit(fs, turbine_type, file_) ==
    IF ~fs[file_].exists THEN Result("FileNotFoundError", NoneVal)
    ELSE IF ContainsNominalPower(file_) THEN Result("ok", Float(NaN))
    ELSE Result("ok", DataFrame(<<>>))

(***************************************************************************)
(* get_turbine_data_from_file(turbine_type, file_) on the files fs.        *)
(***************************************************************************)
GetTurbineDataFromFile(fs, turbine_type, file_) ==
    IF ~fs[file_].exists THEN Result("FileNotFoundError", NoneVal)
    ELSE
    LET df == fs[file_]
        wpp_df == SelectSeq(df.rows, LAMBDA r : r.name = turbine_type)
    IN  IF Len(wpp_df) = 0 THEN Result("SystemExit", NoneVal)
        ELSE IF ContainsNominalPower(file_)
        THEN LET c == ColumnIndex(df.columns, WordLabel("nominal_power"))
             IN  IF c = 0 THEN Result("KeyError", NoneVal)
                 ELSE Result("ok", Float(wpp_df[1].vals[c]))
        ELSE LET kept == KeptColumns(df, wpp_df)
             IN  IF Len(wpp_df) # 1
                 \* transpose().reset_index() has 1 + Len(wpp_df) columns
                 THEN Result("ValueError", NoneVal)
                 ELSE IF \E k \in 1..Len(kept) : df.columns[kept[k]].text # "num"
                 \* float(x) of a label that is no number
                 THEN Result("ValueError", NoneVal)
                 ELSE Result("ok", DataFrame(
                        [k \in 1..Len(kept) |->
                            Point(df.columns[kept[k]].n, wpp_df[1].vals[kept[k]])]))

(***************************************************************************)
(* The turbine library.  A row's curve fields are None (null) or text: the *)
(* literal text of a list, the empty string, or text that is no literal.   *)
(***************************************************************************)
ListText(items) == [t |-> "text", form |-> "list", items |-> items]
EmptyText == [t |-> "text", form |-> "empty", items |-> <<>>]
BadText == [t |-> "text", form |-> "garbage", items |-> <<>>]

\* Python's truth value of a field: None and '' are false, any other text true
Truthy(x) == x.t # "None" /\ x.form # "empty"

\* eval(text) returns the list the text denotes
EvalOk(x) == x.form = "list"
Eval(x) == x.items

CurveTypes == <<"power_curve", "power_coefficient_curve">>

\* turbine_data['{}_wind_speeds'.format(curve_type)][index]
WindSpeedsText(row, curve_type) ==
    IF curve_type = "power_curve" THEN row.power_curve_wind_speeds
    ELSE row.power_coefficient_curve_wind_speeds

\* turbine_data['{}_values'.format(curve_type)][index]
ValuesText(row, curve_type) ==
    IF curve_type = "power_curve" THEN row.power_curve_values
    ELSE row.power_coefficient_curve_values

Max(a, b) == IF a >= b THEN a ELSE b

\* pd.DataFrame(data=[ws, vals]).transpose(): one row per position, the
\* shorter list padded with NaN
Transposed(ws, vals) ==
    [i \in 1..Max(Len(ws), Len(vals)) |->
        Point(IF i <= Len(ws) THEN ws[i] ELSE NaN,
              IF i <= Len(vals) THEN vals[i] ELSE NaN)]

RECURSIVE SortedSeq(_)
\* the elements of the set S of numbers in ascending order
SortedSeq(S) ==
    IF S = {} THEN <<>>
    ELSE LET m == CHOOSE x \in S : \A y \in S : x <= y
         IN  <<m>> \o SortedSeq(S \ {m})

SeqRange(s) == {s[i] : i \in 1..Len(s)}

\* the value a column holds at key w
ValueAt(keys, vals, w) ==
    IF \E i \in 1..Len(keys) : keys[i] = w
    THEN vals[CHOOSE i \in 1..Len(keys) : keys[i] = w]
    ELSE NaN

\* pd.merge(left=curves_df, right=df, how='outer', on='wind_speed'): the
\* union of the keys, every column kept and NaN where a frame has no key
Merge(curves_df, name, df) ==
    LET rkeys == [i \in 1..Len(df) |-> df[i].wind_speed]
        rvals == [i \in 1..Len(df) |-> df[i].value]
        keys == SortedSeq(SeqRange(curves_df.wind_speed) \cup SeqRange(rkeys))
    IN  [wind_speed |-> keys,
         cols |-> [c \in 1..Len(curves_df.cols) |->
                     Row(curves_df.cols[c].name,
                         [k \in 1..Len(keys) |->
                            ValueAt(curves_df.wind_speed,
                                    curves_df.cols[c].vals, keys[k])])]
                  \o <<Row(name, [k \in 1..Len(keys) |->
                                    ValueAt(rkeys, rvals, keys[k])])>>]

\* the test of lines 372-373, on the fields as the response carries them
HasCurve(row, curve_type) ==
    Truthy(WindSpeedsText(row, curve_type)) /\ Truthy(ValuesText(row, curve_type))

RECURSIVE CurvesLoop(_, _, _, _)
\* the loop over turbine_data.index from row i on, curves_df the accumulator
CurvesLoop(turbine_data, curve_type, i, curves_df) ==
    IF i > Len(turbine_data) THEN Result("ok", curves_df)
    ELSE LET row == turbine_data[i]
             ws == WindSpeedsText(row, curve_type)
             vals == ValuesText(row, curve_type)
         IN  IF ~HasCurve(row, curve_type)
             THEN CurvesLoop(turbine_data, curve_type, i + 1, curves_df)
             ELSE IF ~(EvalOk(ws) /\ EvalOk(vals))
             THEN Result("SyntaxError", curves_df)
             ELSE CurvesLoop(turbine_data, curve_type, i + 1,
                             Merge(curves_df, row.turbine_type,
                                   Transposed(Eval(ws), Eval(vals))))

\* set_index('wind_speed').sort_index().transpose() and to_csv: the wind
\* speeds ascending become the column labels, each turbine type one row
ToCsv(curves_df) ==
    LET order == SortedSeq(SeqRange(curves_df.wind_speed))
    IN  Table([k \in 1..Len(order) |-> NumLabel(order[k])],
              [c \in 1..Len(curves_df.cols) |->
                 Row(curves_df.cols[c].name,
                     [k \in 1..Len(order) |->
                        ValueAt(curves_df.wind_speed,
                                curves_df.cols[c].vals, order[k])])])

\* the artifact of one curve type: Result(exc, table)
CurveArtifact(turbine_data, curve_type) ==
    Let(CurvesLoop(turbine_data, curve_type, 1,
                   [wind_speed |-> <<>>, cols |-> <<>>]),
        LAMBDA r : IF r.exc = "ok" THEN Result("ok", ToCsv(r.data))
                   ELSE Result(r.exc, Absent))

\* the nominal power artifact: turbine_type, installed_capacity renamed
NominalArtifact(turbine_data) ==
    Table(<<WordLabel("nominal_power")>>,
          [i \in 1..Len(turbine_data) |->
             Row(turbine_data[i].turbine_type,
                 <<turbine_data[i].installed_capacity>>)])

\* StatusOk without the test: every response is taken
StatusOkAlways(status_code) == TRUE

\* result.status_code == 200
StatusOk(status_code) == status_code = 200

CurveFile(fetch_curve) ==
    IF fetch_curve = "nominal_power" THEN NominalPowerFile
    ELSE IF fetch_curve = "power_curve" THEN PowerCurveFile
    ELSE PowerCoefficientCurveFile

Loaded(exc, fs, data) == [exc |-> exc, files |-> fs, data |-> data]

\* LoadTurbineDataFromOedb without the to_csv of line 391: the nominal
\* power file is not written
LoadTurbineDataFromOedbCurvesOnly(resp, fs) ==
    IF ~StatusOk(resp.status_code) THEN Loaded("ConnectionError", fs, <<>>)
    ELSE
    Let(CurveArtifact(resp.json, CurveTypes[1]), LAMBDA pc :
      IF pc.exc # "ok" THEN Loaded(pc.exc, fs, <<>>)
      ELSE
      Let(CurveArtifact(resp.json, CurveTypes[2]), LAMBDA cp :
        IF cp.exc # "ok"
        THEN Loaded(cp.exc, [fs EXCEPT ![PowerCurveFile] = pc.data], <<>>)
        ELSE Loaded("ok",
                    [fs EXCEPT ![PowerCurveFile] = pc.data,
                               ![PowerCoefficientCurveFile] = cp.data],
                    resp.json)))

(***************************************************************************)
(* load_turbine_data_from_oedb() against the response resp on the files    *)
(* fs: the exception, the files it leaves and the table it returns.        *)
(***************************************************************************)

LoadTurbineDataFromOedb(resp, fs) ==
    IF ~StatusOk(resp.status_code) THEN Loaded("ConnectionError", fs, <<>>)
    ELSE
    Let(CurveArtifact(resp.json, CurveTypes[1]), LAMBDA pc :
      IF pc.exc # "ok" THEN Loaded(pc.exc, fs, <<>>)
      ELSE
      Let(CurveArtifact(resp.json, CurveTypes[2]), LAMBDA cp :
        IF cp.exc # "ok"
        THEN Loaded(cp.exc, [fs EXCEPT ![PowerCurveFile] = pc.data], <<>>)
        ELSE Loaded("ok",
                    [fs EXCEPT ![PowerCurveFile] = pc.data,
                               ![PowerCoefficientCurveFile] = cp.data,
                               ![NominalPowerFile] =
                                   NominalArtifact(resp.json)],
                    resp.json)))

(***************************************************************************)
(* get_turbine_data_from_oedb(turbine_type, fetch_curve): the exception,   *)
(* the files it leaves, its value and the requests it sent to the oedb.    *)
(***************************************************************************)
Outcome(exc, fs, data, requests) ==
    [exc |-> exc, files |-> fs, data |-> data, requests |-> requests]

\* x * 1000, NaN staying NaN
Times1000(x) == IF x = NaN THEN NaN ELSE x * 1000

\* ToWatt with the factor applied to every kind of data
ToWattEveryKind(data, fetch_curve) ==
    IF fetch_curve = "nominal_power" THEN Float(Times1000(data.v))
    ELSE DataFrame([i \in 1..Len(data.rows) |->
                      Point(data.rows[i].wind_speed,
                            Times1000(data.rows[i].value))])

\* lines 327-331: nominal power and power curve values in W
ToWatt(data, fetch_curve) ==
    IF fetch_curve = "nominal_power" THEN Float(Times1000(data.v))
    ELSE IF fetch_curve = "power_curve"
    THEN DataFrame([i \in 1..Len(data.rows) |->
                      Point(data.rows[i].wind_speed,
                            Times1000(data.rows[i].value))])
    ELSE data

\* GetTurbineDataFromOedb without the test of line 317: it always loads
GetTurbineDataFromOedbAlwaysLoads(resp, fs, turbine_type, fetch_curve) ==
    LET filename == CurveFile(fetch_curve)
    IN  Let(LoadTurbineDataFromOedb(resp, fs), LAMBDA load :
          IF load.exc # "ok" THEN Outcome(load.exc, load.files, NoneVal, 1)
          ELSE
          Let(GetTurbineDataFromFile(load.files, turbine_type, filename),
              LAMBDA read :
                IF read.exc # "ok"
                THEN Outcome(read.exc, load.files, NoneVal, 1)
                ELSE Outcome("ok", load.files,
                             ToWatt(read.data, fetch_curve), 1)))

GetTurbineDataFromOedb(resp, fs, turbine_type, fetch_curve) ==
    LET filename == CurveFile(fetch_curve)
        n == IF fs[filename].exists THEN 0 ELSE 1
    IN  Let(IF fs[filename].exists THEN Loaded("ok", fs, <<>>)
            ELSE LoadTurbineDataFromOedb(resp, fs), LAMBDA load :
          IF load.exc # "ok" THEN Outcome(load.exc, load.files, NoneVal, n)
          ELSE
          Let(GetTurbineDataFromFile(load.files, turbine_type, filename),
              LAMBDA read :
                IF read.exc # "ok"
                THEN Outcome(read.exc, load.files, NoneVal, n)
                ELSE Outcome("ok", load.files,
                             ToWatt(read.data, fetch_curve), n)))

(***************************************************************************)
(* WindTurbine.fetch_turbine_data and its helper specify_data.             *)
(***************************************************************************)
\* SpecifyData whose last branch leaves data unset
SpecifyDataDropsOthers(resp, fs, name, data_specification, fetch_curve) ==
    IF data_specification.t \in {"None", "DataFrame", "float"}
    THEN Outcome("ok", fs, data_specification, 0)
    ELSE IF data_specification.t = "str" /\ data_specification.s = "oedb"
    THEN GetTurbineDataFromOedb(resp, fs, name, fetch_curve)
    ELSE IF data_specification.t = "str"
    THEN Let(GetTurbineDataFromFile(fs, name, data_specification.s),
             LAMBDA read : Outcome(read.exc, fs, read.data, 0))
    ELSE Outcome("ok", fs, NoneVal, 0)

SpecifyData(resp, fs, name, data_specification, fetch_curve) ==
    IF data_specification.t \in {"None", "DataFrame", "float"}
    THEN Outcome("ok", fs, data_specification, 0)
    ELSE IF data_specification.t = "str" /\ data_specification.s = "oedb"
    THEN GetTurbineDataFromOedb(resp, fs, name, fetch_curve)
    ELSE IF data_specification.t = "str"
    THEN Let(GetTurbineDataFromFile(fs, name, data_specification.s),
             LAMBDA read : Outcome(read.exc, fs, read.data, 0))
    ELSE Outcome("ok", fs, data_specification, 0)

\* the descriptor's three attributes, in the order they are resolved
AttributeOrder == <<"power_curve", "power_coefficient_curve", "nominal_power">>

WindTurbineObject(name, power_curve, power_coefficient_curve, nominal_power) ==
    [name |-> name, power_curve |-> power_curve,
     power_coefficient_curve |-> power_coefficient_curve,
     nominal_power |-> nominal_power]

\* what fetch_turbine_data leaves: the exception, the files, the object's
\* attributes and the requests sent
Fetched(exc, fs, self, requests) ==
    [exc |-> exc, files |-> fs, self |-> self, requests |-> requests]

FetchTurbineData(resp, fs, self) ==
    Let(SpecifyData(resp, fs, self.name, self.power_curve, AttributeOrder[1]),
        LAMBDA r1 :
      IF r1.exc # "ok" THEN Fetched(r1.exc, r1.files, self, r1.requests)
      ELSE
      Let([self EXCEPT !.power_curve = r1.data], LAMBDA self1 :
      Let(SpecifyData(resp, r1.files, self.name,
                      self1.power_coefficient_curve, AttributeOrder[2]),
          LAMBDA r2 :
        IF r2.exc # "ok"
        THEN Fetched(r2.exc, r2.files, self1, r1.requests + r2.requests)
        ELSE
        Let([self1 EXCEPT !.power_coefficient_curve = r2.data], LAMBDA self2 :
        Let(SpecifyData(resp, r2.files, self.name, self2.nominal_power,
                        AttributeOrder[3]),
            LAMBDA r3 :
          IF r3.exc # "ok"
          THEN Fetched(r3.exc, r3.files, self2,
                       r1.requests + r2.requests + r3.requests)
          ELSE Fetched("ok", r3.files,
                       [self2 EXCEPT !.nominal_power = r3.data],
                       r1.requests + r2.requests + r3.requests))))))

\* Constructed with the exception of fetch_turbine_data swallowed
ConstructedAlways(exc) == TRUE

\* __init__ ends with the call of line 115: the caller gets the object when
\* that call raised nothing
Constructed(exc) == exc = "ok"

(***************************************************************************)
(* get_turbine_types(filter_): the listing, rows of manufacturer,          *)
(* turbine_type, has_power_curve, has_cp_curve.                            *)
(***************************************************************************)
Listed(manufacturer, turbine_type, has_power_curve, has_cp_curve) ==
    [manufacturer |-> manufacturer, turbine_type |-> turbine_type,
     has_power_curve |-> has_power_curve, has_cp_curve |-> has_cp_curve]

\* the words the model uses, in lexicographic order
Lexicographic == <<"E1", "E2", "E3", "M1", "M2">>
Rank(w) == CHOOSE i \in 1..Len(Lexicographic) : Lexicographic[i] = w

\* (manufacturer, turbine_type) of a before that of b
KeyBefore(a, b) ==
    \/ Rank(a.manufacturer) < Rank(b.manufacturer)
    \/ /\ a.manufacturer = b.manufacturer
       /\ Rank(a.turbine_type) < Rank(b.turbine_type)

\* fillna(False) on a flag the other frame did not carry
FillNa(present, flag) == IF present THEN flag ELSE FALSE

\* FilteredListing with the merge of line 458 an inner join
FilteredListingInner(df) ==
    LET both == SelectSeq(df, LAMBDA r : r.has_power_curve /\ r.has_cp_curve)
        rows == [i \in 1..Len(both) |->
                   Listed(both[i].manufacturer, both[i].turbine_type,
                          both[i].has_power_curve, both[i].has_cp_curve)]
    IN  SortSeq(rows, KeyBefore)

\* pd.merge(p_curves_df, cp_curves_df, how='outer', sort=True).fillna(False)
\* on the common columns manufacturer and turbine_type
FilteredListing(df) ==
    LET p_curves_df == SelectSeq(df, LAMBDA r : r.has_power_curve)
        cp_curves_df == SelectSeq(df, LAMBDA r : r.has_cp_curve)
        InP(r) == \E i \in 1..Len(p_curves_df) :
                     /\ p_curves_df[i].manufacturer = r.manufacturer
                     /\ p_curves_df[i].turbine_type = r.turbine_type
        InCp(r) == \E i \in 1..Len(cp_curves_df) :
                     /\ cp_curves_df[i].manufacturer = r.manufacturer
                     /\ cp_curves_df[i].turbine_type = r.turbine_type
        only_cp == SelectSeq(cp_curves_df, LAMBDA r : ~InP(r))
        joined == p_curves_df \o only_cp
        rows == [i \in 1..Len(joined) |->
                   Listed(joined[i].manufacturer, joined[i].turbine_type,
                          FillNa(InP(joined[i]), joined[i].has_power_curve),
                          FillNa(InCp(joined[i]), joined[i].has_cp_curve))]
    IN  SortSeq(rows, KeyBefore)

UnfilteredListing(df) ==
    [i \in 1..Len(df) |->
       Listed(df[i].manufacturer, df[i].turbine_type,
              df[i].has_power_curve, df[i].has_cp_curve)]

GetTurbineTypes(resp, fs, filter_) ==
    Let(LoadTurbineDataFromOedb(resp, fs), LAMBDA load :
      IF load.exc # "ok" THEN Outcome(load.exc, load.files, <<>>, 1)
      ELSE Outcome("ok", load.files,
                   IF filter_ THEN FilteredListing(load.data)
                   ELSE UnfilteredListing(load.data), 1))

(***************************************************************************)
(* The inputs the model draws from.                                        *)
(***************************************************************************)
CatalogRow(turbine_type, manufacturer, installed_capacity, has_power_curve, has_cp_curve, pc_ws, pc_vals, cp_ws, cp_vals) ==
    [turbine_type |-> turbine_type, manufacturer |-> manufacturer,
     installed_capacity |-> installed_capacity,
     has_power_curve |-> has_power_curve, has_cp_curve |-> has_cp_curve,
     power_curve_wind_speeds |-> pc_ws, power_curve_values |-> pc_vals,
     power_coefficient_curve_wind_speeds |-> cp_ws,
     power_coefficient_curve_values |-> cp_vals]

\* three turbine types: E1 with both curves, E2 with a power curve only,
\* E3 with none
CatalogA ==
    <<CatalogRow("E1", "M1", 2, TRUE, TRUE, ListText(<<3, 5, 7>>),
                 ListText(<<1, 2, 2>>), ListText(<<3, 5>>), ListText(<<4, 3>>)),
      CatalogRow("E2", "M2", 3, TRUE, FALSE, ListText(<<5, 7, 9>>),
                 ListText(<<1, 2, 3>>), NoneVal, NoneVal),
      CatalogRow("E3", "M1", 1, FALSE, FALSE, NoneVal, NoneVal, EmptyText,
                 EmptyText)>>

\* a later state of the library: no E2, E3 with a power-coefficient curve
\* only, E1 with other numbers and '[]' for its power-coefficient curve
CatalogB ==
    <<CatalogRow("E3", "M2", 1, FALSE, TRUE, NoneVal, NoneVal,
                 ListText(<<7>>), ListText(<<2>>)),
      CatalogRow("E1", "M1", 4, TRUE, FALSE, ListText(<<5, 3>>),
                 ListText(<<3, 1>>), ListText(<<>>), ListText(<<>>))>>

\* a library whose power-coefficient values of E1 are no list literal
CatalogC ==
    <<CatalogRow("E1", "M1", 5, TRUE, TRUE, ListText(<<3>>), ListText(<<2>>),
                 ListText(<<3>>), BadText),
      CatalogRow("E2", "M2", 3, FALSE, TRUE, NoneVal, NoneVal,
                 ListText(<<3>>), ListText(<<2>>))>>

Response(status_code, json) == [status_code |-> status_code, json |-> json]

Responses ==
    {Response(200, CatalogA), Response(200, CatalogB), Response(200, CatalogC),
     Response(201, CatalogA), Response(503, <<>>)}

TurbineTypes == {"E1", "E2"}

\* the literal of the class documentation: wind speeds 0, 5, 10
LiteralCurve == <<Point(0, 0), Point(5, 1000000), Point(10, 4200000)>>
Literals ==
    {NoneVal, DataFrame(LiteralCurve), Float(4200000), Dict(LiteralCurve)}

CurveSpecifications == Literals \cup {Str("oedb"), Str(ExampleCurvesFile)}
NominalSpecifications == Literals \cup {Str("oedb"), Str(ExampleNominalFile)}

\* the files a user supplies, in the form of example/data: W, one row E1
UserFileContent(file_) ==
    IF file_ = ExampleCurvesFile
    THEN Table(<<NumLabel(0), NumLabel(5), NumLabel(7)>>,
               <<Row("E1", <<0, 9000, 18000>>)>>)
    ELSE Table(<<WordLabel("nominal_power")>>, <<Row("E1", <<150000>>)>>)

(***************************************************************************)
(* State: the files on disk, the response the oedb gives at present, and   *)
(* the last call a client made with all it left behind.                    *)
(***************************************************************************)
VARIABLES files, remote, last

vars == <<files, remote, last>>

NoObject == WindTurbineObject("", NoneVal, NoneVal, NoneVal)

\* a finished call: what was called with which arguments on which files
\* (pre), the exception that left it, its value, the WindTurbine object it
\* worked on, whether the caller holds that object, the requests it sent
Call(op, self0, file_, fetch_curve, filter_, pre, exc, data, self, returned, requests) ==
    [op |-> op, self0 |-> self0, file_ |-> file_, fetch_curve |-> fetch_curve,
     filter_ |-> filter_, pre |-> pre, exc |-> exc, data |-> data,
     self |-> self, returned |-> returned, requests |-> requests]

NoCall(fs) ==
    Call("none", NoObject, "", "", FALSE, fs, "ok", NoneVal, NoObject, FALSE, 0)

Init ==
    /\ files = [f \in Paths |->
                  IF f \in UserFiles THEN UserFileContent(f) ELSE Absent]
    /\ remote \in Responses
    /\ last = NoCall(files)

\* no call is under way: the client is free to make its next call
Idle == last.op = "none"

\* WindTurbine(name, ...): __init__ with its call of fetch_turbine_data
NewWindTurbine ==
    /\ Idle
    /\ \E name \in TurbineTypes,
          power_curve \in CurveSpecifications \cup {Str(MissingFile)},
          power_coefficient_curve \in CurveSpecifications,
          nominal_power \in NominalSpecifications :
            LET self0 == WindTurbineObject(name, power_curve,
                                           power_coefficient_curve,
                                           nominal_power)
            IN  \E r \in {FetchTurbineData(remote, files, self0)} :
                    /\ files' = r.files
                    /\ last' = Call("WindTurbine", self0, "", "", FALSE,
                                    files, r.exc, NoneVal, r.self,
                                    Constructed(r.exc), r.requests)
    /\ UNCHANGED remote

\* fetch_turbine_data() called again on the object the caller holds
FetchAgain ==
    /\ last.returned
    /\ \E r \in {FetchTurbineData(remote, files, last.self)} :
           /\ files' = r.files
           /\ last' = Call("fetch_turbine_data", last.self, "", "", FALSE,
                           files, r.exc, NoneVal, r.self, TRUE, r.requests)
    /\ UNCHANGED remote

CallGetTurbineDataFromFile ==
    /\ Idle
    /\ \E name \in TurbineTypes, file_ \in Paths :
            \E r \in {GetTurbineDataFromFile(files, name, file_)} :
                last' = Call("get_turbine_data_from_file",
                             WindTurbineObject(name, NoneVal, NoneVal, NoneVal),
                             file_, "", FALSE, files, r.exc, r.data, NoObject,
                             FALSE, 0)
    /\ UNCHANGED <<files, remote>>

CallGetTurbineDataFromOedb ==
    /\ Idle
    /\ \E name \in TurbineTypes,
          fetch_curve \in {AttributeOrder[i] : i \in 1..Len(AttributeOrder)} :
            \E r \in {GetTurbineDataFromOedb(remote, files, name,
                                              fetch_curve)} :
                /\ files' = r.files
                /\ last' = Call("get_turbine_data_from_oedb",
                                WindTurbineObject(name, NoneVal, NoneVal,
                                                  NoneVal),
                                "", fetch_curve, FALSE, files, r.exc, r.data,
                                NoObject, FALSE, r.requests)
    /\ UNCHANGED remote

CallLoadTurbineDataFromOedb ==
    /\ Idle
    /\ \E r \in {LoadTurbineDataFromOedb(remote, files)} :
           /\ files' = r.files
           /\ last' = Call("load_turbine_data_from_oedb", NoObject, "", "",
                           FALSE, files, r.exc, r.data, NoObject, FALSE, 1)
    /\ UNCHANGED remote

CallGetTurbineTypes ==
    /\ Idle
    /\ \E filter_ \in BOOLEAN :
            \E r \in {GetTurbineTypes(remote, files, filter_)} :
                /\ files' = r.files
                /\ last' = Call("get_turbine_types", NoObject, "", "", filter_,
                                files, r.exc, r.data, NoObject, FALSE,
                                r.requests)
    /\ UNCHANGED remote

\* the oedb changes, or stops answering
RemoteChanges ==
    /\ Idle
    /\ remote' \in Responses \ {remote}
    /\ last' = NoCall(files)
    /\ UNCHANGED files

\* a user deletes a cache file to refresh the download
DeleteFile ==
    /\ Idle
    /\ \E f \in CacheFiles :
            /\ files[f].exists
            /\ files' = [files EXCEPT ![f] = Absent]
            /\ last' = NoCall(files')
    /\ UNCHANGED remote

\* the client is done with what the last call left and turns to the next
Returns ==
    /\ ~Idle
    /\ last' = NoCall(files)
    /\ UNCHANGED <<files, remote>>

Next ==
    \/ NewWindTurbine
    \/ FetchAgain
    \/ CallGetTurbineDataFromFile
    \/ CallGetTurbineDataFromOedb
    \/ CallLoadTurbineDataFromOedb
    \/ CallGetTurbineTypes
    \/ RemoteChanges
    \/ DeleteFile
    \/ Returns

Spec == Init /\ [][Next]_vars

(***************************************************************************)
(* What the properties speak of.                                           *)
(***************************************************************************)
Attr(self, a) ==
    IF a = "power_curve" THEN self.power_curve
    ELSE IF a = "power_coefficient_curve" THEN self.power_coefficient_curve
    ELSE self.nominal_power

Attributes == {AttributeOrder[i] : i \in 1..Len(AttributeOrder)}

IsLiteral(v) == v.t \in {"None", "DataFrame", "float", "dict"}
IsRequest(v) == v.t = "str"

Resolving == last.op \in {"WindTurbine", "fetch_turbine_data"}

\* the turbine type the last call looked up
LookedUp == last.self0.name

\* the rows of table tbl whose index entry is name
RowsOf(tbl, name) == {i \in 1..Len(tbl.rows) : tbl.rows[i].name = name}
Lists(tbl, name) == tbl.exists /\ RowsOf(tbl, name) # {}

Success(status_code) == status_code >= 200 /\ status_code <= 299

\* C1: an attribute given as None, a table, a scalar or a dictionary has the
\* same value after fetch_turbine_data, whatever became of the call, and a
\* descriptor of three such values is resolved without a request to the
\* oedb, without a change to any file and without error, whatever the files
\* and the oedb hold.
C1_LiteralUnchanged ==
    Resolving =>
        /\ \A a \in Attributes :
              IsLiteral(Attr(last.self0, a)) =>
                  Attr(last.self, a) = Attr(last.self0, a)
        /\ (\A a \in Attributes : IsLiteral(Attr(last.self0, a))) =>
              /\ last.exc = "ok"
              /\ last.requests = 0
              /\ files = last.pre
              /\ last.self = last.self0

\* a dictionary stays as given beside an attribute fetched from the oedb
C1_Witness ==
    /\ last.op = "WindTurbine"
    /\ last.exc = "ok"
    /\ last.self0.power_curve = Dict(LiteralCurve)
    /\ last.self0.power_coefficient_curve = NoneVal
    /\ last.self0.nominal_power = Str("oedb")
    /\ last.self.power_curve = Dict(LiteralCurve)
    /\ last.self.nominal_power.t = "float"
    /\ last.requests = 1

\* the cells of the cache row of the turbine type that hold a value
StoredCells(tbl, name) ==
    LET r == CHOOSE i \in RowsOf(tbl, name) : TRUE
    IN  {c \in 1..Len(tbl.columns) : tbl.rows[r].vals[c] # NaN}

StoredValue(tbl, name, c) ==
    tbl.rows[CHOOSE i \in RowsOf(tbl, name) : TRUE].vals[c]

\* data is the stored curve with every value times factor, wind speeds as
\* stored
IsStoredCurve(data, tbl, name, factor) ==
    /\ data.t = "DataFrame"
    /\ Len(data.rows) = Cardinality(StoredCells(tbl, name))
    /\ \A c \in StoredCells(tbl, name) :
          \E i \in 1..Len(data.rows) :
              /\ data.rows[i].wind_speed = tbl.columns[c].n
              /\ data.rows[i].value = factor * StoredValue(tbl, name, c)

\* C2: get_turbine_data_from_oedb returns the stored nominal power times
\* 1000, the stored power curve with every value times 1000, and the stored
\* power-coefficient curve as it is; wind speeds are those stored.
C2_UnitNormalization ==
    (last.op = "get_turbine_data_from_oedb" /\ last.exc = "ok") =>
        LET tbl == files[CurveFile(last.fetch_curve)]
        IN  /\ Lists(tbl, LookedUp)
            /\ last.fetch_curve = "nominal_power" =>
                  /\ last.data.t = "float"
                  /\ last.data.v = 1000 * StoredValue(tbl, LookedUp, 1)
            /\ last.fetch_curve = "power_curve" =>
                  IsStoredCurve(last.data, tbl, LookedUp, 1000)
            /\ last.fetch_curve = "power_coefficient_curve" =>
                  IsStoredCurve(last.data, tbl, LookedUp, 1)

\* a power-coefficient curve with a value returned unscaled
C2_Witness ==
    /\ last.op = "get_turbine_data_from_oedb"
    /\ last.exc = "ok"
    /\ last.fetch_curve = "power_coefficient_curve"
    /\ Len(last.data.rows) = 2
    /\ last.data.rows[1] = Point(3, 4)

\* C3 as stated: in every call of get_turbine_data_from_oedb a cache file
\* that existed before the call has the same content after it.
C3_ExistingArtifactsKept ==
    last.op = "get_turbine_data_from_oedb" =>
        \A f \in CacheFiles : last.pre[f].exists => files[f] = last.pre[f]

\* C3 amended: a call of get_turbine_data_from_oedb whose own cache file
\* existed before the call sends no request and leaves every file as it
\* was; a call whose own cache file was absent and whose fetch succeeded
\* leaves all three cache files written from the response, whatever they
\* held before.
C3_WarmCallKeepsFiles ==
    last.op = "get_turbine_data_from_oedb" =>
        /\ last.pre[CurveFile(last.fetch_curve)].exists =>
              (files = last.pre /\ last.requests = 0)
        /\ (~last.pre[CurveFile(last.fetch_curve)].exists
                /\ last.exc \in {"ok", "SystemExit"}) =>
              /\ last.requests = 1
              /\ files[PowerCurveFile] =
                    CurveArtifact(remote.json, "power_curve").data
              /\ files[PowerCoefficientCurveFile] =
                    CurveArtifact(remote.json, "power_coefficient_curve").data
              /\ files[NominalPowerFile] = NominalArtifact(remote.json)

\* a call on its own cache file while another cache file is missing
C3_Witness ==
    /\ last.op = "get_turbine_data_from_oedb"
    /\ last.exc = "ok"
    /\ last.fetch_curve = "power_curve"
    /\ last.pre[PowerCurveFile].exists
    /\ ~last.pre[NominalPowerFile].exists
    /\ ~files[NominalPowerFile].exists

\* the last call looked a turbine type up in a table that does not list it
LookupInFile ==
    /\ last.op = "get_turbine_data_from_file"
    /\ last.pre[last.file_].exists
    /\ ~Lists(last.pre[last.file_], LookedUp)

LookupInCache ==
    /\ last.op = "get_turbine_data_from_oedb"
    /\ files[CurveFile(last.fetch_curve)].exists
    /\ ~Lists(files[CurveFile(last.fetch_curve)], LookedUp)

\* C4 as stated: the lookup of a turbine type that a user's file or a cache
\* file, warm or cold before the call, does not list ends in the exit of
\* line 264 with no file created or modified.
C4_NotFoundTouchesNoFile ==
    (LookupInFile \/ LookupInCache) =>
        (last.exc = "SystemExit" /\ files = last.pre)

\* C4 amended: the lookup of a turbine type absent from a user's file or
\* from a cache file that existed before the call ends in the exit of line
\* 264 with every file as it was; with the cache file absent before the call
\* and the fetch successful it ends in the same exit after the fetch has
\* written all three cache files, the user's files as they were.  The exit
\* leaves the constructor too, which returns no object.
C4_NotFound ==
    /\ LookupInFile => (last.exc = "SystemExit" /\ files = last.pre)
    /\ (LookupInCache /\ last.pre[CurveFile(last.fetch_curve)].exists) =>
          (last.exc = "SystemExit" /\ files = last.pre)
    /\ (LookupInCache /\ ~last.pre[CurveFile(last.fetch_curve)].exists
            /\ last.exc \notin {"ConnectionError", "SyntaxError"}) =>
          /\ last.exc = "SystemExit"
          /\ \A f \in CacheFiles : files[f].exists
          /\ files # last.pre
          /\ \A f \in Paths \ CacheFiles : files[f] = last.pre[f]
    /\ (/\ last.op = "WindTurbine"
        /\ last.self0.power_curve = Str(ExampleCurvesFile)
        /\ ~Lists(last.pre[ExampleCurvesFile], LookedUp)) =>
          /\ last.exc = "SystemExit"
          /\ ~last.returned
          /\ files = last.pre

\* a lookup on a cold cache that fetched, wrote and then found nothing
C4_Witness ==
    /\ LookupInCache
    /\ ~last.pre[CurveFile(last.fetch_curve)].exists
    /\ last.exc = "SystemExit"
    /\ last.requests = 1
    /\ files[CurveFile(last.fetch_curve)].exists

\* C5: every call that sent its request to an oedb answering with a status
\* outside 200..299 ends in ConnectionError with every file as it was.
C5_NoSuccessNoWrite ==
    (~Idle /\ last.requests >= 1 /\ ~Success(remote.status_code)) =>
        (last.exc = "ConnectionError" /\ files = last.pre)

\* get_turbine_types against a 503 with all three cache files in place
C5_Witness ==
    /\ last.op = "get_turbine_types"
    /\ remote.status_code = 503
    /\ last.exc = "ConnectionError"
    /\ \A f \in CacheFiles : last.pre[f].exists /\ files[f] = last.pre[f]

\* the last call reached load_turbine_data_from_oedb
Loading == ~Idle /\ last.requests >= 1

\* both sequences of the row's curve type hold an element
NonEmptySequences(row, curve_type) ==
    LET ws == WindSpeedsText(row, curve_type)
        vals == ValuesText(row, curve_type)
    IN  /\ Truthy(ws)
        /\ Truthy(vals)
        /\ Len(Eval(ws)) > 0
        /\ Len(Eval(vals)) > 0

\* tbl is the reshape of the rows of turbine_data with non-empty sequences:
\* one row each in catalog order, the columns the ascending union of their
\* wind speeds, a cell the row's value at that wind speed or empty
ReshapedFrom(tbl, turbine_data, curve_type) ==
    LET with == SelectSeq(turbine_data,
                          LAMBDA r : NonEmptySequences(r, curve_type))
        ws(i) == Eval(WindSpeedsText(with[i], curve_type))
        vals(i) == Eval(ValuesText(with[i], curve_type))
        order == SortedSeq(UNION {SeqRange(ws(i)) : i \in 1..Len(with)})
    IN  /\ tbl.exists
        /\ tbl.columns = [k \in 1..Len(order) |-> NumLabel(order[k])]
        /\ Len(tbl.rows) = Len(with)
        /\ \A i \in 1..Len(with) :
              /\ tbl.rows[i].name = with[i].turbine_type
              /\ Len(tbl.rows[i].vals) = Len(order)
              /\ \A k \in 1..Len(order) :
                    tbl.rows[i].vals[k] = ValueAt(ws(i), vals(i), order[k])

\* C6: after a load that raised nothing, the artifact of each curve type
\* has one row per turbine type whose wind-speed and value sequences are
\* both non-empty, its columns are the ascending union of the wind speeds
\* of those turbine types, and a cell is empty where the turbine type has
\* no value at the wind speed.
C6_RowsOfNonEmptySequences ==
    (Loading /\ last.exc = "ok") =>
        \A c \in 1..Len(CurveTypes) :
            ReshapedFrom(files[CurveFile(CurveTypes[c])], remote.json,
                         CurveTypes[c])

\* a catalog row as get_turbine_types lists it
AsListed(r) ==
    Listed(r.manufacturer, r.turbine_type, r.has_power_curve, r.has_cp_curve)

\* C7: get_turbine_types(filter_=True) lists exactly the turbine types of
\* the catalog with has_power_curve or has_cp_curve set, each once and with
\* both flags as the catalog has them; with filter_=False it lists every
\* row of the catalog, those with both flags false too.
C7_Listing ==
    (last.op = "get_turbine_types" /\ last.exc = "ok") =>
        LET df == remote.json
        IN  IF last.filter_
            THEN /\ SeqRange(last.data) =
                       {AsListed(df[i]) :
                           i \in {j \in 1..Len(df) :
                                    df[j].has_power_curve \/ df[j].has_cp_curve}}
                 /\ \A i, j \in 1..Len(last.data) :
                       last.data[i].turbine_type = last.data[j].turbine_type
                           => i = j
            ELSE last.data = [i \in 1..Len(df) |-> AsListed(df[i])]

\* a filtered listing with a turbine type that has a power curve only, and
\* without the one that has no curve
C7_Witness ==
    /\ last.op = "get_turbine_types"
    /\ last.exc = "ok"
    /\ last.filter_
    /\ Len(last.data) = 2
    /\ \E i \in 1..Len(last.data) :
          last.data[i].has_power_curve /\ ~last.data[i].has_cp_curve
    /\ \E i \in 1..Len(remote.json) :
          /\ ~remote.json[i].has_power_curve
          /\ ~remote.json[i].has_cp_curve

\* C8: a load ends in ConnectionError exactly when the status of the
\* response is outside 200..299; with any status in 200..299 it goes on to
\* write the artifacts.
C8_Any2xxSucceeds ==
    Loading => (last.exc = "ConnectionError" <=> ~Success(remote.status_code))

\* C9: when load_turbine_data_from_oedb has ended, with or without an
\* exception, either no cache file has changed or all three hold the data
\* of the response.
C9_NeverPartial ==
    Loading =>
        \/ files = last.pre
        \/ /\ files[PowerCurveFile] =
                 CurveArtifact(remote.json, CurveTypes[1]).data
           /\ files[PowerCoefficientCurveFile] =
                 CurveArtifact(remote.json, CurveTypes[2]).data
           /\ files[NominalPowerFile] = NominalArtifact(remote.json)

\* attribute a was given as a request and holds its data now
Resolved(a) ==
    IsRequest(Attr(last.self0, a)) /\ ~IsRequest(Attr(last.self, a))

\* C10 as stated: there is no state in which fetch_turbine_data has failed
\* and the object holds the data of one attribute and the request of
\* another.
C10_NoPartialObject ==
    (Resolving /\ last.exc # "ok") =>
        ~\E a, b \in Attributes : Resolved(a) /\ IsRequest(Attr(last.self, b))

\* C10 amended: the constructor hands its object to the caller exactly when
\* fetch_turbine_data raised nothing, and then no attribute holds a
\* request; when fetch_turbine_data failed at an attribute, the object,
\* which no caller holds, has the attributes before it resolved and that
\* attribute and the later ones as they were given.
C10_FailedObjectNotReturned ==
    Resolving =>
        /\ last.returned <=> last.exc = "ok"
        /\ last.returned =>
              \A a \in Attributes : ~IsRequest(Attr(last.self, a))
        /\ last.exc # "ok" =>
              \E k \in 1..Len(AttributeOrder) :
                  /\ IsRequest(Attr(last.self0, AttributeOrder[k]))
                  /\ \A j \in 1..(k - 1) :
                        ~IsRequest(Attr(last.self, AttributeOrder[j]))
                  /\ \A j \in k..Len(AttributeOrder) :
                        Attr(last.self, AttributeOrder[j]) =
                            Attr(last.self0, AttributeOrder[j])

\* a constructor that fetched the power curve, failed at the nominal power
\* and returned no object
C10_Witness ==
    /\ last.op = "WindTurbine"
    /\ last.exc = "SystemExit"
    /\ last.self0.power_curve = Str("oedb")
    /\ last.self0.nominal_power = Str("oedb")
    /\ last.self.power_curve.t = "DataFrame"
    /\ last.self.nominal_power = Str("oedb")
    /\ ~last.returned

\* the attributes given as 'oedb' whose cache file was absent before the call
Misses ==
    {a \in Attributes :
        /\ Attr(last.self0, a) = Str("oedb")
        /\ ~last.pre[CurveFile(a)].exists}

\* C11: one resolution of a descriptor sends at most one request to the
\* oedb, whatever cache files exist and whichever attributes are 'oedb'.  A
\* request is sent only when an attribute given as 'oedb' finds its cache
\* file absent; a resolution that ends without exception sent one exactly
\* when there was such an attribute, and then all three cache files hold
\* the data of the response, so that the later attributes read them.
C11_AtMostOneFetch ==
    Resolving =>
        /\ last.requests <= 1
        /\ last.requests = 1 => Misses # {}
        /\ last.exc = "ok" =>
              /\ last.requests = 1 <=> Misses # {}
              /\ last.requests = 1 =>
                    /\ files[PowerCurveFile] =
                          CurveArtifact(remote.json, CurveTypes[1]).data
                    /\ files[PowerCoefficientCurveFile] =
                          CurveArtifact(remote.json, CurveTypes[2]).data
                    /\ files[NominalPowerFile] = NominalArtifact(remote.json)
                    /\ \A f \in CacheFiles : files[f].exists

\* a constructor with all three attributes 'oedb' on an empty cache: one
\* request, three attributes resolved
C11_Witness ==
    /\ last.op = "WindTurbine"
    /\ last.exc = "ok"
    /\ \A a \in Attributes : Attr(last.self0, a) = Str("oedb")
    /\ \A f \in CacheFiles : ~last.pre[f].exists
    /\ \A a \in Attributes : ~IsRequest(Attr(last.self, a))
    /\ last.requests = 1

====
